---- MODULE Spec2Model ----
(***************************************************************************)
(* Model of galileo_to_arduino.ino: a quadrature decoder (updateEncoder,   *)
(* pin-change interrupt), a sampling ticker (sendData, Timer1 interrupt)   *)
(* and the polling main loop (loop) of an Arduino UNO (8-bit AVR).         *)
(*                                                                         *)
(* Scheduling: on the AVR an interrupt handler runs with interrupts        *)
(* disabled, so each handler is one atomic action; the main loop is        *)
(* preempted between any two machine instructions, and a 32-bit variable   *)
(* is loaded or stored one byte at a time, so each byte transfer of the    *)
(* main loop is a step of its own.  The source does not fix the order of   *)
(* the four byte transfers: each access goes through the bytes in          *)
(* ascending or in descending address order.                               *)
(***************************************************************************)
EXTENDS Integers, Sequences, FiniteSets, TLC

VARIABLES
    encoderPosition,            \* volatile long (signed 32 bit)
    angle,                      \* volatile double: a 32-bit float on the AVR
    lastA, lastB,               \* volatile bool
    there_is_something_to_send, \* volatile bool
    timeCounter,                \* volatile unsigned long, as 16-bit limbs
    pc,                         \* position of the main loop
    pend,                       \* bytes the current multi-byte access still transfers
    reg,                        \* bytes of timeCounter loaded so far by line 123
    regAngle,                   \* bytes of angle loaded so far by line 125 or 128
    lineTime,                   \* Time field of the serial line last written
    lineAngle,                  \* Angle field of the line written in this iteration
    display,                    \* value handed to displayAngle in this iteration
    nLines,                     \* serial lines completed
    ticks,                      \* sendData invocations so far in this run
    edges,                      \* updateEncoder invocations so far in this run
    ticksSinceObs,              \* sendData invocations since loop last read the flag HIGH
    gapAtObs,                   \* until line 123 has printed: ticksSinceObs at that read
    encoderPinA_out,            \* output pin 5, duplicates channel A
    encoderPinB_out,            \* output pin 6, duplicates channel B
    overwritten,                \* sendData ran while the flag was already HIGH
    posBefore,                  \* during the reset store: the value had the store not begun
    posAfter,                   \* during the reset store: the value had the store completed
    logLevel,                   \* _LOG_LEVEL_ of the build
    rawLine,                    \* number last printed by line 168 (_LOG_LEVEL_ 1)
    debugPin1,                  \* output pin 7 (_LOG_LEVEL_ 2)
    intruded                    \* line 168 printed inside the line of this iteration

vars == <<encoderPosition, angle, lastA, lastB, there_is_something_to_send,
          timeCounter, pc, pend, reg, regAngle, lineTime, lineAngle, display,
          nLines,
          ticks, edges, ticksSinceObs, gapAtObs,
          encoderPinA_out, encoderPinB_out, overwritten, posBefore, posAfter,
          logLevel, rawLine, debugPin1, intruded>>

(***************************************************************************)
(* Bounds of the model.                                                    *)
(***************************************************************************)
MaxTicks == 3
MaxEdges == 2
MaxSample == 40
MaxLiveEdges == 1

(***************************************************************************)
(* Program constants.                                                      *)
(***************************************************************************)
LOW == FALSE
HIGH == TRUE
TIMER1_MICROSECONDS == 20000
TIMER1_MILLISECONDS == TIMER1_MICROSECONDS \div 1000
encoder_CPR == 1000
_LOG_LEVEL_ == 0
LogLevels == 0 .. 2

\* encoder_divisor = encoder_CPR * 4.0 / 360.0 counts per degree, as the fraction
\* DivisorNum / DivisorDen.
DivisorNum == encoder_CPR * 4
DivisorDen == 360

(***************************************************************************)
(* 32-bit words.  A signed long is an integer in -2^31 .. 2^31-1; an       *)
(* unsigned long is a record of two 16-bit limbs (hi, lo), since its       *)
(* values exceed the integers at hand.                                     *)
(***************************************************************************)
ByteIdx == 0 .. 3
Limb == 256 * 256
ByteWeight(i) == 256 ^ i

\* Byte i of a signed long, two's complement.
S32Byte(x, i) == (x \div ByteWeight(i)) % 256
\* The signed long with bytes b[0] (lowest) .. b[3].
S32FromBytes(b) ==
    b[0] + b[1] * 256 + b[2] * 65536
    + (IF b[3] >= 128 THEN b[3] - 256 ELSE b[3]) * 16777216
\* x with byte i replaced by v.
S32SetByte(x, i, v) ==
    S32FromBytes([j \in ByteIdx |-> IF j = i THEN v ELSE S32Byte(x, j)])
\* x + d in 32-bit two's complement, d in {-1, 0, 1}.
S32Add(x, d) ==
    IF d = 1 /\ x = 2147483647 THEN -2147483647 - 1
    ELSE IF d = -1 /\ x = -2147483647 - 1 THEN 2147483647
    ELSE x + d
\* y - x in 32-bit two's complement, for y one step away from x.
S32Diff(y, x) ==
    IF y = x THEN 0
    ELSE IF y = S32Add(x, 1) THEN 1
    ELSE IF y = S32Add(x, -1) THEN -1
    ELSE 2

U32(h, l) == [hi |-> h, lo |-> l]
U32Zero == U32(0, 0)
U32Byte(u, i) == IF i < 2 THEN (u.lo \div ByteWeight(i)) % 256
                 ELSE (u.hi \div ByteWeight(i - 2)) % 256
U32FromBytes(b) == U32(b[2] + b[3] * 256, b[0] + b[1] * 256)
\* u + 2 modulo 2^32.
U32IncTwice(u) ==
    IF u.lo + 2 < Limb THEN U32(u.hi, u.lo + 2)
    ELSE U32((u.hi + 1) % Limb, (u.lo + 2) % Limb)

\* u + 1 modulo 2^32.
U32Inc(u) ==
    IF u.lo + 1 < Limb THEN U32(u.hi, u.lo + 1)
    ELSE U32((u.hi + 1) % Limb, 0)
\* u * k modulo 2^32, for 0 <= k < 2^15.
U32Mul(u, k) ==
    U32((u.hi * k + ((u.lo * k) \div Limb)) % Limb, (u.lo * k) % Limb)
\* u + k modulo 2^32, for 0 <= k < 2^16.
U32AddMod(u, k) ==
    U32((u.hi + ((u.lo + k) \div Limb)) % Limb, (u.lo + k) % Limb)
\* u + k < 2^32, i.e. the sum does not wrap.
U32AddFits(u, k) == u.hi + ((u.lo + k) \div Limb) < Limb

\* The bytes a multi-byte access with the bytes p left may transfer next: either
\* end to start with, then onwards in the direction taken.
NextByte(p) ==
    IF p = ByteIdx THEN {0, 3}
    ELSE IF 0 \in p THEN {CHOOSE m \in p : \A k \in p : k <= m}
    ELSE {CHOOSE m \in p : \A k \in p : m <= k}

\* x >> n of a signed long: the shift keeps the sign.
S32Shr(x, n) == x \div (2 ^ n)

(***************************************************************************)
(* 32-bit floats (double is float on the AVR): the record (neg, man, ex)   *)
(* is the number man * 2^ex, negated if neg, with man = 0 for zero and     *)
(* 2^23 <= man < 2^24 otherwise.  Results are rounded to the nearest       *)
(* float, ties to the even mantissa.  Infinities, NaN and subnormal        *)
(* numbers lie outside the values a long divided by encoder_divisor gives. *)
(***************************************************************************)
F32(n, m, e) == [neg |-> n, man |-> m, ex |-> e]
F32Zero == F32(FALSE, 0, 0)
Pow2(n) == 2 ^ n
ManMin == Pow2(23)
ManMax == Pow2(24)

\* The number of low bits to drop from m >= 2^23 to leave 24 bits.
RECURSIVE F32ShiftCount(_, _)
F32ShiftCount(m, k) ==
    IF m \div Pow2(k) < ManMax THEN k ELSE F32ShiftCount(m, k + 1)

\* The float nearest to m * 2^e (m > 0), where sticky tells that the exact
\* number lies above m * 2^e by less than 2^e.
RECURSIVE F32Round(_, _, _, _)
F32Round(n, m, e, sticky) ==
    IF m < Pow2(16) THEN F32Round(n, 256 * m, e - 8, sticky)
    ELSE IF m < ManMin THEN F32Round(n, 2 * m, e - 1, sticky)
    ELSE LET k    == F32ShiftCount(m, 0)
             q    == m \div Pow2(k)
             rem  == m % Pow2(k)
             half == IF k = 0 THEN 0 ELSE Pow2(k - 1)
             up   == /\ k > 0
                     /\ \/ rem > half
                        \/ rem = half /\ (sticky \/ q % 2 = 1)
             q1   == IF up THEN q + 1 ELSE q
         IN  IF q1 = ManMax THEN F32(n, ManMin, e + k + 1) ELSE F32(n, q1, e + k)

\* Conversion of a long to float.
F32FromLong(x) ==
    IF x = 0 THEN F32Zero
    ELSE F32Round(x < 0, IF x < 0 THEN -x ELSE x, 0, FALSE)

\* n more quotient digits of five bits of r / den after the bits q, by long
\* division.
RECURSIVE F32LongDiv(_, _, _, _)
F32LongDiv(r, den, n, q) ==
    IF n = 0 THEN [quot |-> q, rest |-> r]
    ELSE F32LongDiv((32 * r) % den, den, n - 1, 32 * q + (32 * r) \div den)

\* a / b, for b # 0: 25 bits of the quotient of the mantissas below its leading
\* bit, rounded.
F32Div(a, b) ==
    IF a.man = 0 THEN F32Zero
    ELSE LET d == F32LongDiv(a.man % b.man, b.man, 5, a.man \div b.man)
         IN  F32Round(a.neg # b.neg, d.quot, a.ex - b.ex - 25, d.rest # 0)

\* a + b for a, b > 0 and a.ex >= b.ex.
F32AddOrdered(a, b) ==
    LET d == a.ex - b.ex
    IN  IF d > 26 THEN a
        ELSE F32Round(FALSE, a.man * 8 + ((b.man * 8) \div Pow2(d)), a.ex - 3,
                      (b.man * 8) % Pow2(d) # 0)
\* a + b for a, b >= 0.
F32Add(a, b) ==
    IF a.man = 0 THEN b
    ELSE IF b.man = 0 THEN a
    ELSE IF a.ex >= b.ex THEN F32AddOrdered(a, b)
    ELSE F32AddOrdered(b, a)

\* (unsigned long) f for 0 <= f < 2^31.
F32Trunc(f) ==
    IF f.man = 0 \/ f.ex <= -24 THEN 0
    ELSE IF f.ex >= 0 THEN f.man * Pow2(f.ex)
    ELSE f.man \div Pow2(-f.ex)
\* f - (unsigned long) f for f >= 0: the difference is a float.
F32Frac(f) ==
    IF f.man = 0 \/ f.ex >= 0 THEN F32Zero
    ELSE IF f.ex <= -24 THEN f
    ELSE LET r == f.man % Pow2(-f.ex)
         IN  IF r = 0 THEN F32Zero ELSE F32Round(FALSE, r, f.ex, FALSE)
\* f * 10.0.
F32Times10(f) ==
    IF f.man = 0 THEN F32Zero ELSE F32Round(f.neg, f.man * 10, f.ex, FALSE)

NoBytes == [i \in ByteIdx |-> 0]
AngleZero == F32Zero
Whole(v) == [i \in ByteIdx |-> v]

(***************************************************************************)
(* sendData, lines 157-176.                                                *)
(***************************************************************************)
\* encoder_divisor with the quotient taken in whole numbers.
encoder_divisorWhole == F32FromLong(DivisorNum \div DivisorDen)

\* encoder_divisor = encoder_CPR * 4.0 / 360.0, line 61; the product is a
\* whole number below 2^24 and so a float as it stands.
encoder_divisor == F32Div(F32FromLong(DivisorNum), F32FromLong(DivisorDen))

\* angle = encoderPosition / encoder_divisor, line 162.
AngleOf(pos) == F32Div(F32FromLong(pos), encoder_divisor)

\* The main loop has written "Time: " (line 122) and not yet the newline that
\* ends the line (line 125).
LineOpen == pc \in {"time", "angle"}

\* sendData that also clears the position it has sampled.
sendDataZeroing ==
    /\ ticks < MaxTicks
    /\ ticks' = ticks + 1
    /\ timeCounter' = U32Inc(timeCounter)
    /\ angle' = AngleOf(encoderPosition)
    /\ encoderPosition' = 0
    /\ there_is_something_to_send' = HIGH
    /\ rawLine' = IF logLevel = 1 THEN S32Shr(encoderPosition, 2) ELSE rawLine
    /\ intruded' = (intruded \/ (logLevel = 1 /\ LineOpen))
    /\ debugPin1' = IF logLevel = 2 THEN ~debugPin1 ELSE debugPin1
    /\ ticksSinceObs' = ticksSinceObs + 1
    /\ overwritten' = (overwritten \/ there_is_something_to_send = HIGH)
    /\ UNCHANGED <<lastA, lastB, pc, pend, reg, regAngle, lineTime,
                   lineAngle, display, nLines, edges,
                   gapAtObs, encoderPinA_out, encoderPinB_out, posBefore,
                   posAfter, logLevel>>

\* Lines 157-176; line 168 is compiled for _LOG_LEVEL_ 1, line 173 for 2.
sendData ==
    /\ ticks < MaxTicks
    /\ ticks' = ticks + 1
    /\ timeCounter' = U32Inc(timeCounter)
    /\ angle' = AngleOf(encoderPosition)
    /\ there_is_something_to_send' = HIGH
    /\ rawLine' = IF logLevel = 1 THEN S32Shr(encoderPosition, 2) ELSE rawLine
    /\ intruded' = (intruded \/ (logLevel = 1 /\ LineOpen))
    /\ debugPin1' = IF logLevel = 2 THEN ~debugPin1 ELSE debugPin1
    /\ ticksSinceObs' = ticksSinceObs + 1
    /\ overwritten' = (overwritten \/ there_is_something_to_send = HIGH)
    /\ UNCHANGED <<encoderPosition, lastA, lastB, pc, pend, reg, regAngle, lineTime,
                   lineAngle, display, nLines, edges,
                   gapAtObs, encoderPinA_out, encoderPinB_out, posBefore,
                   posAfter, logLevel>>

(***************************************************************************)
(* updateEncoder, lines 135-155.                                           *)
(***************************************************************************)
\* Direction with the two comparisons taken in the other order of sign.
DirectionSwapped(oldA, oldB, newA, newB) ==
    IF newA # oldA \/ newB # oldB
    THEN IF newA = oldB THEN -1
         ELSE IF newB = oldA THEN 1
         ELSE 0
    ELSE 0

\* Direction without the test of line 141.
DirectionNoGuard(oldA, oldB, newA, newB) ==
    IF newA = oldB THEN 1
    ELSE IF newB = oldA THEN -1
    ELSE 0

\* Direction counting the changes of channel A only (x2 decoding).
DirectionChannelA(oldA, oldB, newA, newB) ==
    IF newA # oldA
    THEN IF newA = oldB THEN 1 ELSE -1
    ELSE 0

\* Direction with channel B compared with its own stored level at line 144.
DirectionSameChannel(oldA, oldB, newA, newB) ==
    IF newA # oldA \/ newB # oldB
    THEN IF newA = oldB THEN 1
         ELSE IF newB = oldB THEN -1
         ELSE 0
    ELSE 0

\* The change of encoderPosition, lines 141-147.
Direction(oldA, oldB, newA, newB) ==
    IF newA # oldA \/ newB # oldB
    THEN IF newA = oldB THEN 1
         ELSE IF newB = oldA THEN -1
         ELSE 0
    ELSE 0

\* Lines 135-155 for an invocation that reads the levels newA, newB off the
\* encoder pins.
updateEncoderRun(newA, newB) ==
    LET d == Direction(lastA, lastB, newA, newB)
        during == pc = "reset"
    IN  /\ edges' = edges + 1
        /\ encoderPosition' = S32Add(encoderPosition, d)
        /\ lastA' = newA
        /\ lastB' = newB
        /\ encoderPinA_out' = newA
        /\ encoderPinB_out' = newB
        /\ posBefore' = IF during THEN S32Add(posBefore, d) ELSE posBefore
        /\ posAfter' = IF during THEN S32Add(posAfter, d) ELSE posAfter
        /\ UNCHANGED <<angle, there_is_something_to_send, timeCounter, pc, pend,
                       reg, regAngle, lineTime, lineAngle, display, nLines, ticks,
                       ticksSinceObs, gapAtObs, overwritten, logLevel, rawLine,
                       debugPin1, intruded>>

\* One invocation out of the MaxEdges of a run.
updateEncoderReading(newA, newB) ==
    /\ edges < MaxEdges
    /\ updateEncoderRun(newA, newB)

updateEncoder == \E newA, newB \in BOOLEAN : updateEncoderReading(newA, newB)

(***************************************************************************)
(* loop, lines 112-133, one step per preemption point.                     *)
(***************************************************************************)
loopFrame == <<angle, lastA, lastB, timeCounter, ticks, edges,
               encoderPinA_out, encoderPinB_out, logLevel, rawLine, debugPin1>>

\* Line 114 reading buttonState off the button pin, and the test of line 116.
loopReadButtonAs(buttonState) ==
    /\ pc = "button"
    /\ IF buttonState = LOW
       THEN /\ pc' = "reset"
            /\ pend' = ByteIdx
            /\ posBefore' = encoderPosition
            /\ posAfter' = 0
       ELSE /\ pc' = "poll"
            /\ UNCHANGED <<pend, posBefore, posAfter>>
    /\ UNCHANGED <<encoderPosition, there_is_something_to_send, reg, regAngle, lineTime,
                   lineAngle, display, nLines, ticksSinceObs, gapAtObs,
                   overwritten, intruded>>
    /\ UNCHANGED loopFrame

loopReadButton == \E buttonState \in BOOLEAN : loopReadButtonAs(buttonState)

\* loopResetStore that clears timeCounter along with the position.
loopResetStoreAll ==
    /\ pc = "reset"
    /\ \E i \in NextByte(pend) :
          /\ encoderPosition' = S32SetByte(encoderPosition, i, 0)
          /\ pend' = pend \ {i}
          /\ IF pend' = {}
             THEN /\ pc' = "poll"
                  /\ posBefore' = 0
                  /\ posAfter' = 0
             ELSE UNCHANGED <<pc, posBefore, posAfter>>
    /\ timeCounter' = U32Zero
    /\ UNCHANGED <<there_is_something_to_send, reg, regAngle, lineTime, lineAngle,
                   display, nLines, ticksSinceObs, gapAtObs, overwritten,
                   intruded>>
    /\ UNCHANGED <<angle, lastA, lastB, ticks, edges, encoderPinA_out,
                   encoderPinB_out, logLevel, rawLine, debugPin1>>

\* Line 117, encoderPosition = 0: one byte store.
loopResetStore ==
    /\ pc = "reset"
    /\ \E i \in NextByte(pend) :
          /\ encoderPosition' = S32SetByte(encoderPosition, i, 0)
          /\ pend' = pend \ {i}
          /\ IF pend' = {}
             THEN /\ pc' = "poll"
                  /\ posBefore' = 0
                  /\ posAfter' = 0
             ELSE UNCHANGED <<pc, posBefore, posAfter>>
    /\ UNCHANGED <<there_is_something_to_send, reg, regAngle, lineTime, lineAngle,
                   display, nLines, ticksSinceObs, gapAtObs, overwritten,
                   intruded>>
    /\ UNCHANGED loopFrame

\* loopPollFlag that clears the flag as soon as it has read it HIGH.
loopPollFlagClearing ==
    /\ pc = "poll"
    /\ IF there_is_something_to_send = HIGH
       THEN /\ pc' = "label"
            /\ gapAtObs' = ticksSinceObs
            /\ ticksSinceObs' = 0
            /\ there_is_something_to_send' = LOW
       ELSE /\ pc' = "button"
            /\ UNCHANGED <<gapAtObs, ticksSinceObs, there_is_something_to_send>>
    /\ UNCHANGED <<encoderPosition, pend, reg, regAngle, lineTime,
                   lineAngle, display, nLines, overwritten, posBefore, posAfter,
                   intruded>>
    /\ UNCHANGED loopFrame

\* loopPollFlag that takes the flag for LOW whatever it holds.
loopPollFlagNever ==
    /\ pc = "poll"
    /\ pc' = "button"
    /\ UNCHANGED <<encoderPosition, there_is_something_to_send, pend, reg,
                   regAngle, lineTime, lineAngle, display, nLines, overwritten,
                   posBefore, posAfter, intruded, gapAtObs, ticksSinceObs>>
    /\ UNCHANGED loopFrame

\* loopPollFlag without the test of line 120.
loopPollFlagAlways ==
    /\ pc = "poll"
    /\ pc' = "label"
    /\ gapAtObs' = ticksSinceObs
    /\ ticksSinceObs' = 0
    /\ UNCHANGED <<encoderPosition, there_is_something_to_send, pend, reg, regAngle,
                   lineTime, lineAngle, display, nLines, overwritten, posBefore,
                   posAfter, intruded>>
    /\ UNCHANGED loopFrame

\* Line 120: the read of the flag.
loopPollFlag ==
    /\ pc = "poll"
    /\ IF there_is_something_to_send = HIGH
       THEN /\ pc' = "label"
            /\ gapAtObs' = ticksSinceObs
            /\ ticksSinceObs' = 0
       ELSE /\ pc' = "button"
            /\ UNCHANGED <<gapAtObs, ticksSinceObs>>
    /\ UNCHANGED <<encoderPosition, there_is_something_to_send, pend, reg, regAngle,
                   lineTime, lineAngle, display, nLines, overwritten, posBefore,
                   posAfter, intruded>>
    /\ UNCHANGED loopFrame

\* Line 122: Serial.print("Time: ") opens the line.
loopPrintLabel ==
    /\ pc = "label"
    /\ pc' = "time"
    /\ pend' = ByteIdx
    /\ UNCHANGED <<encoderPosition, there_is_something_to_send, reg, regAngle, lineTime,
                   lineAngle, display, nLines, ticksSinceObs, gapAtObs,
                   overwritten, posBefore, posAfter, intruded>>
    /\ UNCHANGED loopFrame

\* TimeField without the conversion to milliseconds.
TimeFieldTicks(tc) == tc

\* The number line 123 prints.
TimeField(tc) == U32Mul(tc, TIMER1_MILLISECONDS)

\* Line 123: one byte load of timeCounter; after the last, the print of the
\* number, and of " ms, Angle: " (line 124).
loopReadTime ==
    /\ pc = "time"
    /\ \E i \in NextByte(pend) :
          LET r == [reg EXCEPT ![i] = U32Byte(timeCounter, i)]
          IN  IF pend = {i}
              THEN /\ lineTime' = TimeField(U32FromBytes(r))
                   /\ pc' = "angle"
                   /\ pend' = ByteIdx
                   /\ reg' = NoBytes
                   /\ gapAtObs' = -1
              ELSE /\ reg' = r
                   /\ pend' = pend \ {i}
                   /\ UNCHANGED <<pc, lineTime, gapAtObs>>
    /\ UNCHANGED <<encoderPosition, there_is_something_to_send, regAngle, lineAngle,
                   display, nLines, ticksSinceObs, overwritten, posBefore,
                   posAfter, intruded>>
    /\ UNCHANGED loopFrame

\* Line 125: one byte load of angle; after the last, the println.
loopReadAngle ==
    /\ pc = "angle"
    /\ \E i \in NextByte(pend) :
          LET r == [regAngle EXCEPT ![i] = angle]
          IN  IF pend = {i}
              THEN /\ lineAngle' = r
                   /\ nLines' = nLines + 1
                   /\ pc' = "display"
                   /\ pend' = ByteIdx
                   /\ regAngle' = Whole(AngleZero)
              ELSE /\ regAngle' = r
                   /\ pend' = pend \ {i}
                   /\ UNCHANGED <<pc, lineAngle, nLines>>
    /\ UNCHANGED <<encoderPosition, there_is_something_to_send, reg, lineTime,
                   display, ticksSinceObs, gapAtObs, overwritten, posBefore,
                   posAfter, intruded>>
    /\ UNCHANGED loopFrame

\* Line 128: one byte load of angle; after the last, displayAngle.
loopDisplayAngle ==
    /\ pc = "display"
    /\ \E i \in NextByte(pend) :
          LET r == [regAngle EXCEPT ![i] = angle]
          IN  IF pend = {i}
              THEN /\ display' = r
                   /\ pc' = "clear"
                   /\ pend' = {}
                   /\ regAngle' = Whole(AngleZero)
              ELSE /\ regAngle' = r
                   /\ pend' = pend \ {i}
                   /\ UNCHANGED <<pc, display>>
    /\ UNCHANGED <<encoderPosition, there_is_something_to_send, reg, lineTime,
                   lineAngle, nLines, ticksSinceObs, gapAtObs, overwritten,
                   posBefore, posAfter, intruded>>
    /\ UNCHANGED loopFrame

\* loopClearFlag without the store of line 131.
loopClearFlagSkipped ==
    /\ pc = "clear"
    /\ pc' = "button"
    /\ lineAngle' = Whole(AngleZero)
    /\ display' = Whole(AngleZero)
    /\ intruded' = FALSE
    /\ UNCHANGED <<encoderPosition, there_is_something_to_send, overwritten,
                   pend, reg, regAngle, lineTime, nLines, ticksSinceObs, gapAtObs,
                   posBefore, posAfter>>
    /\ UNCHANGED loopFrame

\* Line 131.
loopClearFlag ==
    /\ pc = "clear"
    /\ there_is_something_to_send' = LOW
    /\ overwritten' = FALSE
    /\ pc' = "button"
    /\ lineAngle' = Whole(AngleZero)
    /\ display' = Whole(AngleZero)
    /\ intruded' = FALSE
    /\ UNCHANGED <<encoderPosition, pend, reg, regAngle, lineTime, nLines, ticksSinceObs,
                   gapAtObs, posBefore, posAfter>>
    /\ UNCHANGED loopFrame

\* The steps of loop that follow the read of the button.
loopOutput ==
    \/ loopPollFlag
    \/ loopPrintLabel
    \/ loopReadTime
    \/ loopReadAngle
    \/ loopDisplayAngle
    \/ loopClearFlag

loop ==
    \/ loopReadButton
    \/ loopResetStore
    \/ loopOutput

\* The state after setup (lines 74-110) of a build with _LOG_LEVEL_ = level,
\* timeCounter = tc and encoderPosition = pos, the encoder channels at the
\* levels a and b.
InitWith(level, tc, pos, a, b) ==
    /\ encoderPosition = pos
    /\ angle = AngleZero
    /\ lastA = a
    /\ lastB = b
    /\ there_is_something_to_send = LOW
    /\ timeCounter = tc
    /\ pc = "button"
    /\ pend = {}
    /\ reg = NoBytes
    /\ regAngle = Whole(AngleZero)
    /\ lineTime = TimeField(tc)
    /\ lineAngle = Whole(AngleZero)
    /\ display = Whole(AngleZero)
    /\ nLines = 0
    /\ ticks = 0
    /\ edges = 0
    /\ ticksSinceObs = 0
    /\ gapAtObs = -1
    /\ encoderPinA_out = a
    /\ encoderPinB_out = b
    /\ overwritten = FALSE
    /\ posBefore = 0
    /\ posAfter = 0
    /\ logLevel = level
    /\ rawLine = 0
    /\ debugPin1 = LOW
    /\ intruded = FALSE

Init == InitWith(_LOG_LEVEL_, U32Zero, 0, LOW, LOW)

Next == loop \/ updateEncoder \/ sendData

Spec == Init /\ [][Next]_vars

(***************************************************************************)
(* The device after a long run: 2^32 \div 20 - 1 ticks, every sample       *)
(* consumed, the pendulum at rest at position 0.  One more tick gives the  *)
(* last count whose time in milliseconds fits an unsigned long.            *)
(***************************************************************************)
UptimeTicks == U32(3276, 52427)

InitUptime == InitWith(_LOG_LEVEL_, UptimeTicks, 0, LOW, LOW)

SpecUptime == (Init \/ InitUptime) /\ [][Next]_vars

(***************************************************************************)
(* The device after 254 ticks (5.08 s), every sample consumed, the         *)
(* pendulum at rest at position 0: the next tick fills byte 0 of           *)
(* timeCounter and the one after it carries into byte 1.                   *)
(***************************************************************************)
CarryTicks == U32(0, ByteWeight(1) - 2)

InitCarry == InitWith(_LOG_LEVEL_, CarryTicks, 0, LOW, LOW)

SpecCarry == InitCarry /\ [][Next]_vars

(***************************************************************************)
(* The device after 2^32 - 1 ticks: timeCounter holds the largest unsigned *)
(* long, and the next tick takes it round to 0.                            *)
(***************************************************************************)
WrapTicks == U32(Limb - 1, Limb - 1)

InitWrap == InitWith(_LOG_LEVEL_, WrapTicks, 0, LOW, LOW)

SpecWrap == (Init \/ InitWrap) /\ [][Next]_vars

(***************************************************************************)
(* The main loop keeps running: loop is called again and again (the        *)
(* Arduino core's for (;;) loop()), and an interrupt handler returns after *)
(* a bounded number of instructions, so a step of loop that stays possible *)
(* is eventually taken.  The decoder is invoked up to MaxLiveEdges times.   *)
(***************************************************************************)
updateEncoderLive ==
    /\ edges < MaxLiveEdges
    /\ updateEncoder

NextLive == loop \/ updateEncoderLive \/ sendData

SpecLive == Init /\ [][NextLive]_vars /\ WF_vars(loop)

(***************************************************************************)
(* The builds of the sketch: _LOG_LEVEL_ is 0, 1 or 2 at compile time.     *)
(***************************************************************************)
InitBuilds ==
    \E level \in LogLevels : InitWith(level, U32Zero, 0, LOW, LOW)

SpecBuilds == InitBuilds /\ [][Next]_vars

(***************************************************************************)
(* The round trip: from power-on the encoder delivers DivisorNum edges in  *)
(* the order A rising, B rising, A falling, B falling, one invocation of   *)
(* updateEncoder per edge, the button stays released, and Timer1 fires     *)
(* once the last edge has been delivered.                                  *)
(***************************************************************************)
RoundTripEdges == DivisorNum

\* The levels of channels A and B after edge k of the sequence.
RoundTripA(k) == k % 4 \in {1, 2}
RoundTripB(k) == k % 4 \in {2, 3}

roundTripEdge ==
    /\ edges < RoundTripEdges
    /\ updateEncoderRun(RoundTripA(edges + 1), RoundTripB(edges + 1))

roundTripTick ==
    /\ edges = RoundTripEdges
    /\ sendData

roundTripLoop == loopReadButtonAs(HIGH) \/ loopOutput

NextRoundTrip == roundTripEdge \/ roundTripTick \/ roundTripLoop

SpecRoundTrip == Init /\ [][NextRoundTrip]_vars

(***************************************************************************)
(* One quadrature cycle in each direction: from any stored levels the       *)
(* encoder moves four single-channel edges through 00, 01, 11, 10 (B ahead  *)
(* of A) and then four edges back; the button stays released.               *)
(***************************************************************************)
CycleEdges == DivisorNum \div encoder_CPR

InitCycle ==
    \E a \in BOOLEAN, b \in BOOLEAN : InitWith(_LOG_LEVEL_, U32Zero, 0, a, b)

\* The levels read at lines 137-138 one edge further with B ahead of A.
CycleAheadA == lastB
CycleAheadB == ~lastA

\* The levels read at lines 137-138 one edge further with A ahead of B.
CycleBackA == ~lastB
CycleBackB == lastA

cycleEdge ==
    \/ /\ edges < CycleEdges
       /\ updateEncoderRun(CycleAheadA, CycleAheadB)
    \/ /\ edges >= CycleEdges
       /\ edges < 2 * CycleEdges
       /\ updateEncoderRun(CycleBackA, CycleBackB)

NextCycle == cycleEdge \/ sendData \/ roundTripLoop

SpecCycle == InitCycle /\ [][NextCycle]_vars

(***************************************************************************)
(* The quotient of line 162 as a function of the position: the encoder has *)
(* turned to one of the positions -MaxSample .. MaxSample or by one        *)
(* revolution either way before the first tick; the button stays released. *)
(***************************************************************************)
PositionSamples == (-MaxSample .. MaxSample) \cup {DivisorNum, -DivisorNum}

\* The levels of channels A and B at position pos, the cycle being 00, 01, 11,
\* 10 in the direction updateEncoder counts up.
LevelA(pos) == pos % 4 \in {2, 3}
LevelB(pos) == pos % 4 \in {1, 2}

InitAngle ==
    \E pos \in PositionSamples :
        InitWith(_LOG_LEVEL_, U32Zero, pos, LevelA(pos), LevelB(pos))

NextAngle == sendData \/ roundTripLoop

SpecAngle == InitAngle /\ [][NextAngle]_vars

\* The Angle field Serial.println(angle, 1) prints for the float f (line 125):
\* the sign, then the whole part and one decimal of |f| + 0.5 / 10.0, each step
\* in float arithmetic.
printFloat1(f) ==
    LET rounding == F32Div(F32(FALSE, ManMin, -24), F32FromLong(10))
        number   == F32Add(F32(FALSE, f.man, f.ex), rounding)
    IN  [neg |-> f.neg,
         int |-> F32Trunc(number),
         dec |-> F32Trunc(F32Times10(F32Frac(number)))]

(***************************************************************************)
(* Claims.                                                                 *)
(***************************************************************************)
\* The main loop is between its read of the flag as HIGH and line 131.
Consuming == pc \in {"label", "time", "angle", "display", "clear"}
\* The step is an invocation of sendData.
TickStep == ticks' = ticks + 1
\* The step is an invocation of updateEncoder.
EdgeStep == edges' = edges + 1
\* The step prints the Time field of a line (line 123).
TimePrintStep == pc = "time" /\ pc' = "angle"
\* The step completes a serial line (line 125).
LinePrintStep == pc = "angle" /\ pc' = "display"

\* C1: while the flag is HIGH and the main loop is consuming the sample, no step
\* writes angle or timeCounter.
C1_StableWhileConsumed ==
    [][(there_is_something_to_send = HIGH /\ Consuming)
        => (angle' = angle /\ timeCounter' = timeCounter)]_vars

\* C2: a tick that runs while the main loop's reset store is under way computes
\* its angle from a position held entirely before the store or entirely after it,
\* never from a partly stored one.
C2_TickerReadsWholePosition ==
    [][(TickStep /\ pc = "reset")
        => angle' \in {AngleOf(posBefore), AngleOf(posAfter)}]_vars

\* C3: when the reset store of an iteration that read the button LOW completes,
\* encoderPosition is 0.
C3_ResetLeavesZero ==
    [][(pc = "reset" /\ pc' = "poll") => encoderPosition' = 0]_vars

\* C4: when a tick fired while a sample was pending, the next line completed
\* reports the timeCounter and the angle of the most recent tick.
C4_LatestValueWins ==
    [][(LinePrintStep /\ overwritten)
        => (lineTime' = TimeField(timeCounter) /\ lineAngle' = Whole(angle))]_vars

\* C5: whenever the main loop has just read the flag as HIGH, at least one tick
\* occurred since its previous read of the flag as HIGH.
C5_TickBetweenReads == pc = "time" => gapAtObs >= 1

\* C5 witness: a second read of the flag as HIGH, after a completed line.
C5_Witness == pc = "time" /\ nLines >= 1 /\ gapAtObs = 1

\* C6 as stated: when exactly one tick occurred between the previous line's read
\* of the flag and the print of this line's Time field, the field is the previous
\* line's Time field plus TIMER1_MILLISECONDS.
C6_TimeStepExact ==
    [][(TimePrintStep /\ nLines >= 1 /\ gapAtObs + ticksSinceObs = 1)
        => (/\ U32AddFits(lineTime, TIMER1_MILLISECONDS)
            /\ lineTime' = U32AddMod(lineTime, TIMER1_MILLISECONDS))]_vars

\* C6 amended: in that case the field is the previous line's Time field plus
\* TIMER1_MILLISECONDS modulo 2^32.
C6_TimeStepModulo ==
    [][(TimePrintStep /\ nLines >= 1 /\ gapAtObs + ticksSinceObs = 1)
        => lineTime' = U32AddMod(lineTime, TIMER1_MILLISECONDS)]_vars

\* C6 witness: the Time field of the second line of a run has just been printed
\* two ticks into the run, so one tick lies between the two lines, and the field
\* has wrapped to 4.
C6_Witness ==
    /\ pc = "angle"
    /\ pend = ByteIdx
    /\ nLines = 1
    /\ ticks = 2
    /\ ticksSinceObs = 0
    /\ lineTime = U32(0, 4)

\* C7: an invocation that sees the next state of the quadrature cycle
\* 00, 01, 11, 10 adds 1, and one that sees the next state of the opposite cycle
\* 00, 10, 11, 01 subtracts 1, whatever the stored levels.
C7_OneDirectionOneSign ==
    [][EdgeStep
        => (/\ (lastA' = lastB /\ lastB' = ~lastA)
                => encoderPosition' = S32Add(encoderPosition, 1)
            /\ (lastA' = ~lastB /\ lastB' = lastA)
                => encoderPosition' = S32Add(encoderPosition, -1))]_vars

\* C7 witness: two invocations along 00, 01, 11 have counted up to 2.
C7_Witness ==
    /\ edges = 2
    /\ ticks = 0
    /\ pc = "button"
    /\ lastA = HIGH
    /\ lastB = HIGH
    /\ encoderPosition = 2

\* C8: an invocation in which both levels differ from the stored ones leaves
\* encoderPosition unchanged.
C8_DoubleTransitionIgnored ==
    [][(EdgeStep /\ lastA' # lastA /\ lastB' # lastB)
        => encoderPosition' = encoderPosition]_vars

\* The rule as C9 states it.
StatedRule(oldA, oldB, newA, newB) ==
    IF newA = oldB THEN 1
    ELSE IF newB = oldA THEN -1
    ELSE 0

\* The rule with the case of unchanged levels put first.
AmendedRule(oldA, oldB, newA, newB) ==
    IF newA = oldA /\ newB = oldB THEN 0
    ELSE StatedRule(oldA, oldB, newA, newB)

\* C9 as stated: every invocation changes encoderPosition by +1 if newA = lastB,
\* otherwise by -1 if newB = lastA, otherwise by 0.
C9_StatedRule ==
    [][EdgeStep
        => encoderPosition'
            = S32Add(encoderPosition, StatedRule(lastA, lastB, lastA', lastB'))]_vars

\* C9 amended: every invocation changes encoderPosition by 0 if neither level
\* differs from the stored one, otherwise by +1 if newA = lastB, otherwise by -1
\* if newB = lastA, otherwise by 0.
C9_AmendedRule ==
    [][EdgeStep
        => encoderPosition'
            = S32Add(encoderPosition, AmendedRule(lastA, lastB, lastA', lastB'))]_vars

\* C9 witness: the one invocation so far read both levels as stored, LOW and LOW,
\* and left the position at 0.
C9_Witness ==
    /\ edges = 1
    /\ ticks = 0
    /\ pc = "button"
    /\ lastA = LOW
    /\ lastB = LOW
    /\ encoderPosition = 0

\* C10: an invocation changes encoderPosition by at most 1 either way, and only
\* if a level differs from the stored one.
C10_UnitStepOnChange ==
    [][EdgeStep
        => (/\ S32Diff(encoderPosition', encoderPosition) \in {-1, 0, 1}
            /\ encoderPosition' # encoderPosition
                => (lastA' # lastA \/ lastB' # lastB))]_vars

\* C10 witness: the one invocation so far saw channel B differ and counted 1.
C10_Witness ==
    /\ edges = 1
    /\ ticks = 0
    /\ pc = "button"
    /\ lastA = LOW
    /\ lastB = HIGH
    /\ encoderPosition = 1

\* The step is one byte store of the reset of line 117.
ResetStoreStep == pc = "reset" /\ pend' # pend /\ ~TickStep /\ ~EdgeStep
\* The step is the store of line 131.
ClearStep == pc = "clear" /\ pc' = "button"

\* C11 as stated: only an invocation of updateEncoder changes encoderPosition.
C11_OnlyDecoderWrites ==
    [][encoderPosition' # encoderPosition => EdgeStep]_vars

\* C11 amended: encoderPosition is changed only by an invocation of updateEncoder
\* or by a byte store of the main loop's reset (line 117); an invocation of
\* sendData and every other step of the main loop leave it as it is.
C11_DecoderAndResetWrite ==
    [][encoderPosition' # encoderPosition => (EdgeStep \/ ResetStoreStep)]_vars

\* C11 witness: the one invocation of updateEncoder counted 1, a tick sampled
\* that position, and the reset store has since put the position back to 0.
C11_Witness ==
    /\ pc = "poll"
    /\ edges = 1
    /\ ticks = 1
    /\ lastA = LOW
    /\ lastB = HIGH
    /\ angle = AngleOf(1)
    /\ encoderPosition = 0

\* C12: the flag goes from LOW to HIGH only in an invocation of sendData and
\* from HIGH to LOW only in the store of line 131, the end of the main loop's
\* output step; an invocation of updateEncoder changes neither the flag nor angle
\* nor timeCounter.
C12_FlagOwnership ==
    [][/\ (there_is_something_to_send = LOW /\ there_is_something_to_send' = HIGH)
            => TickStep
       /\ (there_is_something_to_send = HIGH /\ there_is_something_to_send' = LOW)
            => ClearStep
       /\ EdgeStep
            => UNCHANGED <<there_is_something_to_send, angle, timeCounter>>]_vars

\* C12 witness: a tick has set the flag, the main loop has printed the line and
\* cleared the flag, and updateEncoder has run once, after the tick.
C12_Witness ==
    /\ pc = "button"
    /\ ticks = 1
    /\ edges = 1
    /\ nLines = 1
    /\ there_is_something_to_send = LOW
    /\ angle = AngleZero
    /\ encoderPosition = 1

\* C13: every invocation of sendData adds one to timeCounter modulo 2^32, sets
\* angle to the quotient of the encoderPosition it reads by encoder_divisor,
\* leaves the flag HIGH, and changes none of encoderPosition, lastA, lastB.
C13_TickEffect ==
    [][TickStep
        => (/\ timeCounter' = U32AddMod(timeCounter, 1)
            /\ angle' = AngleOf(encoderPosition)
            /\ there_is_something_to_send' = HIGH
            /\ UNCHANGED <<encoderPosition, lastA, lastB>>)]_vars

\* C13 witness: the tick that read position 1 took timeCounter from 2^32 - 1
\* round to 0.
C13_Witness ==
    /\ ticks = 1
    /\ edges = 1
    /\ timeCounter = U32Zero
    /\ angle = AngleOf(1)
    /\ encoderPosition = 1
    /\ lastB = HIGH
    /\ there_is_something_to_send = HIGH

\* The first tick of the round trip has fired and the main loop has completed
\* the line for it.
RoundTripLineDone ==
    edges = RoundTripEdges /\ ticks = 1 /\ pc \in {"display", "clear"}
\* The Angle field of the line of this iteration is that of the float f.
LineReports(field) ==
    /\ lineAngle = Whole(lineAngle[0])
    /\ printFloat1(lineAngle[0]) = field

\* C14 as stated: the tick after the 4000th edge of the sequence A rising,
\* B rising, A falling, B falling produces one line, and the line reports
\* Angle: 360.0.
C14_RoundTripPlus360 ==
    /\ (edges = RoundTripEdges /\ ticks = 1) => nLines <= 1
    /\ RoundTripLineDone
        => (nLines = 1 /\ LineReports([neg |-> FALSE, int |-> 360, dec |-> 0]))

\* C14 amended: that tick produces one line, and the line reports Angle: -360.0.
C14_RoundTripMinus360 ==
    /\ (edges = RoundTripEdges /\ ticks = 1) => nLines <= 1
    /\ RoundTripLineDone
        => (nLines = 1 /\ LineReports([neg |-> TRUE, int |-> 360, dec |-> 0]))

\* C14 witness: the 4000 edges have taken the position to -4000, the tick has
\* fired, and the main loop has printed the line and shown the angle.
C14_Witness ==
    /\ RoundTripLineDone
    /\ pc = "clear"
    /\ nLines = 1
    /\ encoderPosition = -RoundTripEdges
    /\ lastA = LOW
    /\ lastB = LOW

\* encoder_divisor as the fraction of whole numbers CountsNum / CountsDen in
\* lowest terms.
RECURSIVE Gcd(_, _)
Gcd(a, b) == IF b = 0 THEN a ELSE Gcd(b, a % b)
CountsNum == DivisorNum \div Gcd(DivisorNum, DivisorDen)
CountsDen == DivisorDen \div Gcd(DivisorNum, DivisorDen)
Abs(x) == IF x < 0 THEN -x ELSE x

\* f * CountsNum - pos * CountsDen in units of 2^f.ex, for a float f of
\* magnitude below 2^23 and of the sign of pos: 0 iff f is pos / divisor.
QuotientError(f, pos) ==
    f.man * CountsNum - Abs(pos) * CountsDen * Pow2(-f.ex)
SameSign(f, pos) == f.man # 0 => (f.neg <=> pos < 0)

\* C15 as stated: the angle a tick stores is exactly position / divisor, i.e.
\* angle * 4000 = position * 360.
C15_QuotientExact ==
    [][TickStep
        => (/\ SameSign(angle', encoderPosition)
            /\ QuotientError(angle', encoderPosition) = 0)]_vars

\* C15 amended: the angle a tick stores has the sign of the position and differs
\* from position / divisor by less than the fraction 2^-23 of its magnitude,
\* and a tick that reads position 4000 stores exactly 360.0.
C15_QuotientRounded ==
    [][TickStep
        => (/\ SameSign(angle', encoderPosition)
            /\ Abs(QuotientError(angle', encoderPosition))
                 <= (angle'.man * CountsNum) \div Pow2(23)
            /\ encoderPosition = RoundTripEdges
                 => angle' = F32FromLong(DivisorDen))]_vars

\* C15 witness: a tick has read position 4000 and stored 360.0.
C15_Witness ==
    /\ ticks = 1
    /\ encoderPosition = RoundTripEdges
    /\ angle = F32FromLong(DivisorDen)
    /\ there_is_something_to_send = HIGH

\* The step is one of the main loop.
LoopStep == ~TickStep /\ ~EdgeStep /\ (pc' # pc \/ pend' # pend)
\* What the main loop puts out, and what it shares with sendData.
Outputs == <<lineTime, lineAngle, nLines, display, rawLine>>
Sample == <<there_is_something_to_send, angle, timeCounter>>

\* C16: the steps of a main-loop iteration up to and including a read of the
\* flag as LOW print nothing, show nothing, and leave the flag, angle and
\* timeCounter unchanged; after that read the iteration is over.
C16_IdleIterationSilent ==
    [][(/\ LoopStep
        /\ \/ pc \in {"button", "reset"}
           \/ pc = "poll" /\ there_is_something_to_send = LOW)
        => (/\ UNCHANGED Outputs
            /\ UNCHANGED Sample
            /\ pc = "poll" => pc' = "button")]_vars

\* C16 witness: before any tick, an iteration has reset the position the one
\* invocation of updateEncoder had counted, read the flag as LOW and ended.
C16_Witness ==
    /\ pc = "button"
    /\ ticks = 0
    /\ edges = 1
    /\ lastB = HIGH
    /\ encoderPosition = 0
    /\ nLines = 0
    /\ there_is_something_to_send = LOW

\* C17: in every build no serial write falls between the "Time: " that opens a
\* line of the main loop and the newline that ends it.
C17_WholeLines == ~intruded

\* C18: at startup encoderPosition = 0, timeCounter = 0 and the flag is LOW;
\* the main loop's read of the button and its reset store leave timeCounter,
\* angle, the flag, lastA and lastB unchanged; and timeCounter changes only in
\* an invocation of sendData, by the increment.
C18_ResetTouchesPositionOnly ==
    /\ encoderPosition = 0
    /\ timeCounter = U32Zero
    /\ there_is_something_to_send = LOW
    /\ [][/\ (LoopStep /\ pc \in {"button", "reset"})
               => UNCHANGED <<timeCounter, angle, there_is_something_to_send,
                              lastA, lastB>>
          /\ timeCounter' # timeCounter
               => (TickStep /\ timeCounter' = U32AddMod(timeCounter, 1))]_vars

\* C18 witness: updateEncoder counted 1, a tick sampled it, and a press of the
\* button has put the position back to 0 with the tick's timeCounter, angle and
\* flag and the decoder's levels still in place.
C18_Witness ==
    /\ pc = "poll"
    /\ edges = 1
    /\ ticks = 1
    /\ encoderPosition = 0
    /\ timeCounter = U32(0, 1)
    /\ angle = AngleOf(1)
    /\ there_is_something_to_send = HIGH
    /\ lastA = LOW
    /\ lastB = HIGH

\* The step hands the angle to displayAngle (line 128).
DisplayStep == pc = "display" /\ pc' = "clear"

\* C19: when an iteration has printed its line and shown its angle, the Time
\* field, the Angle field and the angle shown are the timeCounter and the angle
\* written by one invocation of sendData.  The last byte shown is loaded from
\* angle in that step, so the invocation can only be the latest one.
C19_LineOfOneTick ==
    [][DisplayStep
        => (/\ lineTime = TimeField(timeCounter)
            /\ lineAngle = Whole(angle)
            /\ display' = Whole(angle))]_vars

\* C20: with the main loop running, whenever the flag is HIGH and the iteration
\* under way has not yet printed its line, a line is eventually printed; and
\* whenever the flag is HIGH it is eventually LOW.
C20_FlagEventuallyConsumed ==
    /\ (there_is_something_to_send = HIGH /\ pc \notin {"display", "clear"})
          ~> (pc = "display")
    /\ (there_is_something_to_send = HIGH) ~> (there_is_something_to_send = LOW)

\* C20 witness: two ticks have each set the flag, and the main loop has printed a
\* line for each and cleared the flag.
C20_Witness ==
    /\ pc = "button"
    /\ ticks = 2
    /\ nLines = 2
    /\ there_is_something_to_send = LOW

\* C21: in the build with _LOG_LEVEL_ 1 every invocation of sendData prints the
\* value encoderPosition holds at that invocation.
C21_RawPositionSent ==
    [][(TickStep /\ logLevel = 1) => rawLine' = encoderPosition]_vars

\* C22: encoderPosition is the sum of the changes of the decoder invocations
\* since the most recent reset store: an invocation changes it by its own +1, -1
\* or 0; the reset store, once complete, leaves 0 or, counting the invocations
\* that ran while it was under way, their sum; and no other step changes it.
C22_NoUpdateLost ==
    [][/\ EdgeStep
            => encoderPosition'
                = S32Add(encoderPosition, Direction(lastA, lastB, lastA', lastB'))
       /\ (pc = "reset" /\ pc' = "poll") => encoderPosition' \in {0, posAfter}
       /\ encoderPosition' # encoderPosition
            => (EdgeStep \/ ResetStoreStep)]_vars

\* The step is a decoder invocation in which exactly one channel differs from
\* its stored level.
SingleEdgeStep == EdgeStep /\ ((lastA' # lastA) # (lastB' # lastB))

\* C23: after a decoder invocation for a single-channel transition, the
\* invocation for the inverse transition (the new levels stored, the old ones
\* read) takes encoderPosition back to the value it had before the first.
C23_ReversalRestores ==
    [][SingleEdgeStep
        => S32Add(encoderPosition', Direction(lastA', lastB', lastA, lastB))
            = encoderPosition]_vars

\* C23 witness: channel B rose and a tick sampled position 1, then channel B
\* fell again, and the position is back at 0.
C23_Witness ==
    /\ edges = 2
    /\ ticks = 1
    /\ angle = AngleOf(1)
    /\ lastA = LOW
    /\ lastB = LOW
    /\ encoderPosition = 0
    /\ pc = "button"
    /\ nLines = 0

\* C24: a decoder invocation in which exactly one channel differs from its
\* stored level changes encoderPosition by +1 or by -1, whatever the stored
\* levels; the four edges of one cycle with B ahead change it by 4 in all, and
\* the four edges of the cycle back change it by 4 the other way.
C24_EveryEdgeCounts ==
    /\ [][SingleEdgeStep
            => S32Diff(encoderPosition', encoderPosition) \in {1, -1}]_vars
    /\ [](edges = CycleEdges => encoderPosition = CycleEdges)
    /\ [](edges = 2 * CycleEdges => encoderPosition = 0)

\* C24 witness: a full cycle has been decoded from the stored levels HIGH, HIGH
\* and a tick has sampled the position 4.
C24_Witness ==
    /\ edges = CycleEdges
    /\ lastA = HIGH
    /\ lastB = HIGH
    /\ encoderPosition = CycleEdges
    /\ ticks = 1
    /\ angle = AngleOf(CycleEdges)

\* The serial lines emitted so far, the one being printed included.
LinesBegun == nLines + (IF LineOpen THEN 1 ELSE 0)

\* C25: in the default build the lines emitted so far, the one being printed
\* included, are at most as many as the ticks so far, and at most as many as
\* the ticks that had occurred when loop last read the flag HIGH: none before
\* the first tick, and every line has a tick of its own.
C25_LinesWithinTicks ==
    /\ logLevel = _LOG_LEVEL_
    /\ LinesBegun <= ticks
    /\ LinesBegun <= ticks - ticksSinceObs

\* C25 witness: two ticks, each consumed before the next, and two lines.
C25_Witness ==
    /\ ticks = 2
    /\ nLines = 2
    /\ ticksSinceObs = 0
    /\ pc = "button"
    /\ there_is_something_to_send = LOW

\* u - 1 modulo 2^32.
U32Dec(u) ==
    IF u.lo > 0 THEN U32(u.hi, u.lo - 1)
    ELSE U32((u.hi + Limb - 1) % Limb, Limb - 1)

\* u < v for unsigned 32-bit words.
U32Less(u, v) == u.hi < v.hi \/ (u.hi = v.hi /\ u.lo < v.lo)

\* The values timeCounter has held since n ticks ago.
RECURSIVE CountsSince(_, _)
CountsSince(u, n) ==
    IF n = 0 THEN {u} ELSE {u} \cup CountsSince(U32Dec(u), n - 1)

\* tc * TIMER1_MILLISECONDS lies within the unsigned 32-bit range.
TimeFits(tc) == ~U32Less(U32Inc(UptimeTicks), tc)

\* C26: the Time field printed is TIMER1_MILLISECONDS times a value timeCounter
\* has held since loop read the flag HIGH, modulo 2^32, and while that product
\* fits 32 bits it is greater than the Time field of the line before, whatever
\* ticks occur during the consumption.
C26_TimeOfCounterIncreasing ==
    [][TimePrintStep
        => (/\ \E tc \in CountsSince(timeCounter, ticksSinceObs) :
                  lineTime' = TimeField(tc)
            /\ (nLines >= 1 /\ TimeFits(timeCounter))
                  => U32Less(lineTime, lineTime'))]_vars
====
